---------------------------- MODULE Spec2Model ----------------------------
(***************************************************************************)
(* Model of poc-sprite/comfyui_client.py: one call of                      *)
(* ComfyUIClient.generate_image (submit, await completion over the         *)
(* websocket, fetch the image), together with the backend that answers     *)
(* its requests and puts events on the websocket, and the deadline timer.  *)
(*                                                                         *)
(* A step of the client is the code between two awaits: asyncio runs it    *)
(* without interleaving.  The backend's answers are inputs, drawn from     *)
(* small sets.                                                             *)
(***************************************************************************)
EXTENDS Naturals, Sequences, FiniteSets, TLC

\* ------------------------------------------------------------------ bounds
\* Events the backend puts on the websocket during one call.
MaxEvents == 3
\* Output nodes of one history record.
MaxNodes == 2
\* Image descriptors of one output node.
MaxImages == 2

\* ------------------------------------------------------------------ values
\* Python's None, and a key that a JSON object does not have.
Null == "null"
Absent == "absent"

\* Job ids the backend hands out.
JobIds == {"j1", "j2"}

\* dict.get(key): a missing key reads as None.
DictGet(v) == IF v = Absent THEN Null ELSE v

\* The websocket frames the backend may send.  A frame is a JSON object
\* with its "type" and the "node" and "prompt_id" of its "data", or text
\* that is no JSON ("notjson").
ExecutingEvents ==
    [type : {"executing"}, node : {Null, "9"}, prompt_id : JobIds \cup {Absent}]
ErrorEvents ==
    [type : {"execution_error"}, node : {Absent}, prompt_id : JobIds]
OtherEvents ==
    [type : {"progress", "notjson"}, node : {Absent}, prompt_id : {Absent}]
Events == ExecutingEvents \cup ErrorEvents \cup OtherEvents

\* message.get("data") of a frame.
DataOf(e) == [node |-> e.node, prompt_id |-> e.prompt_id]

\* What a message_task holds: a frame, or the ConnectionClosed that recv()
\* raises once the backend has closed the websocket; NoData before it is done.
NoData == [type |-> "none", node |-> Absent, prompt_id |-> Absent]
ConnectionClosed == [type |-> "ConnectionClosed", node |-> Absent, prompt_id |-> Absent]

\* Exceptions: the message of the code's Exception, or the name of the
\* library's error, and the event data the message interpolates.
NoDetail == [node |-> Absent, prompt_id |-> Absent]
Exc(m, d) == [msg |-> m, detail |-> d]
NoExc == Exc("none", NoDetail)

\* What generate_image has returned: nothing yet, None, or the bytes of the
\* file of one image descriptor.
NotReturned == [kind |-> "pending", file |-> <<>>]
None == [kind |-> "None", file |-> <<>>]
Bytes(d) == [kind |-> "bytes", file |-> d]

\* A request of the client, as the backend sees it.
Request(r, a) == [req |-> r, arg |-> a]

\* The answers of the backend to an HTTP request: a network failure, a
\* status other than 200, or 200.
HttpAnswers == {"ConnectError", "500", "200"}

\* An output node of a history record: without an "images" key, or with a
\* list of n image descriptors.  The descriptor of image k of node i is
\* <<i, k>>.
OutputNodes == [has_images : {FALSE}, n : {0}] \cup [has_images : {TRUE}, n : 0..MaxImages]

RECURSIVE SeqsUpTo(_, _)
SeqsUpTo(S, n) ==
    IF n = 0 THEN {<<>>}
    ELSE LET shorter == SeqsUpTo(S, n - 1)
         IN shorter \cup {Append(q, x) : q \in shorter, x \in S}

\* The "outputs" a history record may hold; a missing record reads as {}.
OutputsSet == SeqsUpTo(OutputNodes, MaxNodes)

\* The descriptors of outputs in the order of the two nested loops of
\* _get_generated_image.
RECURSIVE ImagesOf(_, _, _)
ImagesOf(i, n, k) ==
    IF k > n THEN <<>> ELSE <<(<<i, k>>)>> \o ImagesOf(i, n, k + 1)

RECURSIVE DescriptorsFrom(_, _)
DescriptorsFrom(outs, i) ==
    IF i > Len(outs) THEN <<>>
    ELSE (IF outs[i].has_images THEN ImagesOf(i, outs[i].n, 1) ELSE <<>>)
         \o DescriptorsFrom(outs, i + 1)

Descriptors(outs) == DescriptorsFrom(outs, 1)

\* Mutant of IsCompletion: the prompt_id of the frame is not compared.
IsCompletionAnyJob(message, pid) ==
    /\ message.type = "executing"
    /\ DictGet(message.node) = Null

\* Mutant of IsCompletion: the prompt_id of the frame is compared with the
\* client id of the websocket, which no frame carries there.
IsCompletionByClientId(message, pid) ==
    /\ message.type = "executing"
    /\ DictGet(message.node) = Null
    /\ DictGet(message.prompt_id) = "client_id"

\* The test of lines 168-173: an "executing" frame whose node is None and
\* whose prompt_id is the tracked one.
IsCompletion(message, pid) ==
    /\ message.type = "executing"
    /\ DictGet(message.node) = Null
    /\ DictGet(message.prompt_id) = pid

\* Mutant of IsExecutionError: another type name is compared.
IsExecutionErrorOtherType(message) ==
    message.type = "error"

\* The test of line 179.
IsExecutionError(message) ==
    message.type = "execution_error"

\* json.loads(data) raises on text that is no JSON.
IsJson(message) == message.type # "notjson"

\* Mutant of Cancel: the task is left as it is.
CancelForgotten(task) == task

\* task.cancel(): a task that is not done is cancelled.
Cancel(task) == IF task = "pending" THEN "cancelled" ELSE task

VARIABLES
    pc,            \* where generate_image is suspended
    prompt_id,     \* the job id _queue_prompt returned
    websocket,     \* "unopened", "open", "closed"
    chan,          \* frames the backend sent that recv() has not returned
    peer_closed,   \* the backend closed the websocket
    unread,        \* frames discarded unread when the websocket closed
    timeout_task,  \* "none", "pending", "done", "cancelled"
    message_task,  \* "none", "pending", "done", "cancelled"
    data,          \* the result of a done message_task
    consumed,      \* the frames the loop took from message_task.result()
    wait_exit,     \* how _wait_for_completion left: "none", "return", "raise",
                   \* "cancelled" (a CancelledError swallowed at line 184)
    exc,           \* the exception generate_image caught
    outputs,       \* the outputs of the history record
    scan,          \* descriptors of outputs still to be requested
    image_data,    \* what generate_image returned
    log,           \* the requests the client issued, in order
    answers,       \* the backend's answers: answers[i] answers log[i]
    lost,          \* the frames sent to the session while it had no websocket
    \* generate_sprites.py: main and generate_walk_cycle
    main_pc,       \* where main is suspended
    probe_answer,  \* the answer to GET /system_stats
    available,     \* what is_available returned
    entity,        \* index in TEST_ENTITIES of the entity being generated
    frames,        \* the normalized frames of that entity so far
    requested,     \* the generate_image calls made: <<entity, frame, seed>>
    results,       \* what generate_walk_cycle returned, per entity
    saved,         \* the files written: <<entity, file name>>
    \* calls of the functions that do no input or output
    fn,            \* the function under call
    calls          \* the calls made: arguments and result

clientVars == <<pc, prompt_id, websocket, chan, peer_closed, unread, timeout_task,
                message_task, data, consumed, wait_exit, exc, outputs, scan,
                image_data, log, answers, lost>>
mainVars == <<main_pc, probe_answer, available, entity, frames, requested,
              results, saved>>
pureVars == <<fn, calls>>

vars == <<clientVars, mainVars, pureVars>>

trackVars == <<websocket, chan, peer_closed, unread, timeout_task,
               message_task, data, consumed, wait_exit>>
fetchVars == <<outputs, scan>>

\* main has not been started.
MainIdle ==
    /\ main_pc = "idle"
    /\ probe_answer = "none"
    /\ available = "unknown"
    /\ entity = 0
    /\ frames = <<>>
    /\ requested = <<>>
    /\ results = <<>>
    /\ saved = {}

\* No function is under call.
PureIdle ==
    /\ fn = "none"
    /\ calls = <<>>

\* generate_image has not been called.
ClientIdle ==
    /\ pc = "start"
    /\ prompt_id = Null
    /\ websocket = "unopened"
    /\ chan = <<>>
    /\ peer_closed = FALSE
    /\ unread = 0
    /\ timeout_task = "none"
    /\ message_task = "none"
    /\ data = NoData
    /\ consumed = <<>>
    /\ wait_exit = "none"
    /\ exc = NoExc
    /\ outputs = <<>>
    /\ scan = <<>>
    /\ image_data = NotReturned
    /\ log = <<>>
    /\ answers = <<>>
    /\ lost = <<>>

Init ==
    /\ ClientIdle
    /\ MainIdle
    /\ PureIdle

\* Mutant of Fail: the except clause hands the exception on to the caller.
FailReraised(e) ==
    /\ pc' = "done"
    /\ exc' = e
    /\ image_data' = [kind |-> e.msg, file |-> <<>>]

\* generate_image's except clause: report the error, return None.
Fail(e) ==
    /\ pc' = "done"
    /\ exc' = e
    /\ image_data' = None

\* generate_image up to its first await: the POST of _queue_prompt.
Start ==
    /\ pc = "start"
    /\ pc' = "queue_prompt"
    /\ log' = Append(log, Request("POST /prompt", <<>>))
    /\ UNCHANGED <<prompt_id, exc, image_data, answers>>
    /\ UNCHANGED trackVars
    /\ UNCHANGED fetchVars
    /\ UNCHANGED <<lost, mainVars, pureVars>>

\* Mutant of QueuePromptAnswer: a POST answered with a status other than
\* 200 is sent again.
QueuePromptAnswerRetried ==
    /\ pc = "queue_prompt"
    /\ \/ /\ answers' = Append(answers, "500")
          /\ log' = Append(log, Request("POST /prompt", <<>>))
          /\ UNCHANGED <<pc, prompt_id, exc, image_data>>
       \/ \E j \in JobIds :
            /\ answers' = Append(answers, "200")
            /\ prompt_id' = j
            /\ pc' = "connect"
            /\ log' = Append(log, Request("WS /ws", <<>>))
            /\ UNCHANGED <<exc, image_data>>
    /\ UNCHANGED trackVars
    /\ UNCHANGED fetchVars
    /\ UNCHANGED <<lost, mainVars, pureVars>>

\* The POST is answered: _queue_prompt raises, or returns the prompt_id and
\* _wait_for_completion starts to connect the websocket.
QueuePromptAnswer ==
    /\ pc = "queue_prompt"
    /\ \/ /\ answers' = Append(answers, "ConnectError")
          /\ Fail(Exc("ConnectError", NoDetail))
          /\ UNCHANGED <<prompt_id, log>>
       \/ /\ answers' = Append(answers, "500")
          /\ Fail(Exc("Failed to queue prompt", NoDetail))
          /\ UNCHANGED <<prompt_id, log>>
       \/ /\ answers' = Append(answers, "200 without prompt_id")
          /\ Fail(Exc("KeyError", NoDetail))
          /\ UNCHANGED <<prompt_id, log>>
       \/ \E j \in JobIds :
            /\ answers' = Append(answers, "200")
            /\ prompt_id' = j
            /\ pc' = "connect"
            /\ log' = Append(log, Request("WS /ws", <<>>))
            /\ UNCHANGED <<exc, image_data>>
    /\ UNCHANGED trackVars
    /\ UNCHANGED fetchVars
    /\ UNCHANGED <<lost, mainVars, pureVars>>

\* websockets.connect is answered: it raises, or the websocket is open, the
\* deadline timer and the first recv() are started and asyncio.wait awaits.
Connect ==
    /\ pc = "connect"
    /\ \/ /\ answers' = Append(answers, "refused")
          /\ Fail(Exc("ConnectionRefused", NoDetail))
          /\ wait_exit' = "raise"
          /\ UNCHANGED <<websocket, timeout_task, message_task>>
       \/ /\ answers' = Append(answers, "open")
          /\ websocket' = "open"
          /\ timeout_task' = "pending"
          /\ message_task' = "pending"
          /\ pc' = "wait"
          /\ UNCHANGED <<wait_exit, exc, image_data>>
    /\ UNCHANGED <<prompt_id, chan, peer_closed, unread, data, consumed, log>>
    /\ UNCHANGED fetchVars
    /\ UNCHANGED <<lost, mainVars, pureVars>>

\* The frames the backend has sent: those the loop consumed, the one a done
\* recv() holds, those no recv() has returned yet, those sent to no websocket.
Sent ==
    Len(consumed) + Len(chan) + Len(lost)
    + (IF message_task = "done" /\ data \in Events THEN 1 ELSE 0)

\* The backend sends a frame on the open websocket.
Emit ==
    /\ websocket = "open"
    /\ ~peer_closed
    /\ Sent < MaxEvents
    /\ \E e \in Events : chan' = Append(chan, e)
    /\ UNCHANGED <<pc, prompt_id, websocket, peer_closed, unread, timeout_task,
                   message_task, data, consumed, wait_exit, exc, image_data, log, answers>>
    /\ UNCHANGED fetchVars
    /\ UNCHANGED <<lost, mainVars, pureVars>>

\* The backend closes the websocket.
PeerClose ==
    /\ websocket = "open"
    /\ ~peer_closed
    /\ peer_closed' = TRUE
    /\ UNCHANGED <<pc, prompt_id, websocket, chan, unread, timeout_task,
                   message_task, data, consumed, wait_exit, exc, image_data, log, answers>>
    /\ UNCHANGED fetchVars
    /\ UNCHANGED <<lost, mainVars, pureVars>>

\* asyncio.sleep(self.timeout) ends: the deadline has elapsed.
TimerFire ==
    /\ timeout_task = "pending"
    /\ timeout_task' = "done"
    /\ UNCHANGED <<pc, prompt_id, websocket, chan, peer_closed, unread,
                   message_task, data, consumed, wait_exit, exc, image_data, log, answers>>
    /\ UNCHANGED fetchVars
    /\ UNCHANGED <<lost, mainVars, pureVars>>

\* The pending recv() ends: with the oldest frame, or, when there is none
\* and the backend closed, with ConnectionClosed.
RecvDone ==
    /\ message_task = "pending"
    /\ \/ /\ chan # <<>>
          /\ data' = Head(chan)
          /\ chan' = Tail(chan)
       \/ /\ chan = <<>>
          /\ peer_closed
          /\ data' = ConnectionClosed
          /\ chan' = chan
    /\ message_task' = "done"
    /\ UNCHANGED <<pc, prompt_id, websocket, peer_closed, unread, timeout_task,
                   consumed, wait_exit, exc, image_data, log, answers>>
    /\ UNCHANGED fetchVars
    /\ UNCHANGED <<lost, mainVars, pureVars>>

\* How _wait_for_completion leaves (lines 186-189 and the end of the
\* "async with"): the timer is cancelled, a recv() that is not done is
\* cancelled, the websocket is closed in both directions and the frames no
\* recv() returned are discarded.  mt is message_task at that point.
LeaveWait(how, mt) ==
    /\ wait_exit' = how
    /\ timeout_task' = Cancel(timeout_task)
    /\ message_task' = Cancel(mt)
    /\ websocket' = "closed"
    /\ peer_closed' = TRUE
    /\ unread' = Len(chan)
    /\ chan' = <<>>

\* Mutant of RaiseInWait: the exception is swallowed inside
\* _wait_for_completion, which returns, and generate_image goes on.
RaiseInWaitSwallowed(e, mt) ==
    /\ LeaveWait("raise", mt)
    /\ pc' = "history"
    /\ log' = Append(log, Request("GET /history", <<>>))
    /\ UNCHANGED <<exc, image_data>>

\* An exception leaves _wait_for_completion and generate_image catches it.
RaiseInWait(e, mt) ==
    /\ LeaveWait("raise", mt)
    /\ Fail(e)
    /\ UNCHANGED log

\* Mutant of ReturnFromWait: the return is missing and the loop goes on.
ReturnFromWaitMissing ==
    /\ message_task' = "pending"
    /\ UNCHANGED <<pc, websocket, chan, peer_closed, unread, timeout_task,
                   wait_exit, exc, image_data, log>>

\* Lines 175-176, then line 58 up to the GET of the history.
ReturnFromWait ==
    /\ LeaveWait("return", "none")
    /\ pc' = "history"
    /\ log' = Append(log, Request("GET /history", <<>>))
    /\ UNCHANGED <<exc, image_data>>

\* Mutant of TimedOut: a done recv() is looked at before the timer.
TimedOutUnlessMessage == timeout_task = "done" /\ message_task # "done"

\* Line 158: the timer is among the done tasks.
TimedOut == timeout_task = "done"

\* asyncio.wait returns with the timer done (lines 158-159), whether or not
\* the recv() is done too.
WaitTimeout ==
    /\ TimedOut
    /\ RaiseInWait(Exc("Timeout waiting for image generation", NoDetail), message_task)
    /\ UNCHANGED consumed

\* asyncio.wait returns with only the recv() done, and message_task.result()
\* raises ConnectionClosed (line 162).
WaitClosed ==
    /\ ~TimedOut
    /\ data = ConnectionClosed
    /\ RaiseInWait(Exc("ConnectionClosed", NoDetail), message_task)
    /\ UNCHANGED consumed

\* asyncio.wait returns with only the recv() done, holding a frame (lines
\* 161-182): the frame ends the wait, or the loop starts the next recv().
WaitMessage ==
    /\ ~TimedOut
    /\ data # ConnectionClosed
    /\ consumed' = Append(consumed, data)
    /\ IF ~IsJson(data)
         THEN RaiseInWait(Exc("JSONDecodeError", NoDetail), "none")
       ELSE IF IsCompletion(data, prompt_id)
         THEN ReturnFromWait
       ELSE IF IsExecutionError(data)
         THEN RaiseInWait(Exc("Execution error", DataOf(data)), "none")
       ELSE /\ message_task' = "pending"
            /\ UNCHANGED <<pc, websocket, chan, peer_closed, unread, timeout_task,
                           wait_exit, exc, image_data, log>>

\* asyncio.wait returns: at least one of the two tasks is done.
WaitReturn ==
    /\ pc = "wait"
    /\ timeout_task = "done" \/ message_task = "done"
    /\ \/ WaitTimeout
       \/ WaitClosed
       \/ WaitMessage
    /\ UNCHANGED <<prompt_id, data, answers>>
    /\ UNCHANGED fetchVars
    /\ UNCHANGED <<lost, mainVars, pureVars>>

\* Mutant of NextView: a scan that had descriptors ends with an error of
\* its own.
NextViewOwnError(rest) ==
    /\ scan' = rest
    /\ IF rest = <<>>
         THEN /\ Fail(Exc(IF scan = <<>> THEN "No images found in output"
                                        ELSE "No image could be retrieved", NoDetail))
              /\ UNCHANGED log
         ELSE /\ pc' = "view"
              /\ log' = Append(log, Request("GET /view", Head(rest)))
              /\ UNCHANGED <<exc, image_data>>

\* The request of the next descriptor of the scan (lines 208-221), or line
\* 226 when none is left.
NextView(rest) ==
    /\ scan' = rest
    /\ IF rest = <<>>
         THEN /\ Fail(Exc("No images found in output", NoDetail))
              /\ UNCHANGED log
         ELSE /\ pc' = "view"
              /\ log' = Append(log, Request("GET /view", Head(rest)))
              /\ UNCHANGED <<exc, image_data>>

\* The GET of the history is answered (lines 195-221).
HistoryAnswer ==
    /\ pc = "history"
    /\ \/ /\ answers' = Append(answers, "ConnectError")
          /\ Fail(Exc("ConnectError", NoDetail))
          /\ UNCHANGED <<outputs, scan, log>>
       \/ /\ answers' = Append(answers, "500")
          /\ Fail(Exc("Failed to get history", NoDetail))
          /\ UNCHANGED <<outputs, scan, log>>
       \/ \E outs \in OutputsSet :
            /\ answers' = Append(answers, "200")
            /\ outputs' = outs
            /\ NextView(Descriptors(outs))
    /\ UNCHANGED prompt_id
    /\ UNCHANGED trackVars
    /\ UNCHANGED <<lost, mainVars, pureVars>>

\* Mutant of Retrieved: the status is not looked at.
RetrievedAnyStatus(answer) == TRUE

\* Line 223: the status that lets the scan return the content.
Retrieved(answer) == answer = "200"

\* The GET of one image is answered (lines 219-226).
ViewAnswer ==
    /\ pc = "view"
    /\ \E answer \in HttpAnswers :
         /\ answers' = Append(answers, answer)
         /\ IF answer = "ConnectError"
              THEN /\ Fail(Exc("ConnectError", NoDetail))
                   /\ UNCHANGED <<scan, log>>
            ELSE IF Retrieved(answer)
              THEN /\ image_data' = Bytes(Head(scan))
                   /\ pc' = "done"
                   /\ UNCHANGED <<scan, exc, log>>
            ELSE NextView(Tail(scan))
    /\ UNCHANGED <<prompt_id, outputs>>
    /\ UNCHANGED trackVars
    /\ UNCHANGED <<lost, mainVars, pureVars>>

Next ==
    \/ Start
    \/ QueuePromptAnswer
    \/ Connect
    \/ Emit
    \/ PeerClose
    \/ TimerFire
    \/ RecvDone
    \/ WaitReturn
    \/ HistoryAnswer
    \/ ViewAnswer

Spec == Init /\ [][Next]_vars

\* --------------------------------------------- cancellation of the caller
\* The task that runs generate_image is cancelled while it is suspended in
\* asyncio.wait (line 153): CancelledError is raised there, the except clause
\* of lines 184-185 swallows it, the finally clause and the end of the
\* "async with" run, _wait_for_completion returns and generate_image goes on
\* with the GET of the history (line 58). The cancel() and the resumption of
\* the task are taken as one step: nothing in between changes the outcome.
CancelInWait ==
    /\ pc = "wait"
    /\ LeaveWait("cancelled", message_task)
    /\ pc' = "history"
    /\ log' = Append(log, Request("GET /history", <<>>))
    /\ UNCHANGED <<prompt_id, data, consumed, exc, image_data, answers, lost>>
    /\ UNCHANGED fetchVars
    /\ UNCHANGED <<mainVars, pureVars>>

\* The task is cancelled while it is suspended in a request outside the
\* try of _wait_for_completion: CancelledError is no Exception, the except
\* clause of generate_image does not catch it and it leaves generate_image.
\* A task whose cancellation was swallowed is not cancelled again.
CancelElsewhere ==
    /\ pc \in {"queue_prompt", "connect", "history", "view"}
    /\ wait_exit # "cancelled"
    /\ pc' = "cancelled"
    /\ UNCHANGED <<prompt_id, exc, image_data, log, answers, lost>>
    /\ UNCHANGED trackVars
    /\ UNCHANGED fetchVars
    /\ UNCHANGED <<mainVars, pureVars>>

CancelNext ==
    \/ Start
    \/ QueuePromptAnswer
    \/ Connect
    \/ Emit
    \/ PeerClose
    \/ TimerFire
    \/ RecvDone
    \/ WaitReturn
    \/ HistoryAnswer
    \/ ViewAnswer
    \/ CancelInWait
    \/ CancelElsewhere

CancelSpec == Init /\ [][CancelNext]_vars

\* ------------------------------------- the job runs before the websocket
\* generate_image opens the websocket only after the POST has returned
\* (lines 52-55). A frame the backend sends for the session in between
\* reaches no websocket: no recv() will return it.
EmitLost ==
    /\ pc = "connect"
    /\ Sent < MaxEvents
    /\ \E e \in Events : lost' = Append(lost, e)
    /\ UNCHANGED <<pc, prompt_id, exc, image_data, log, answers>>
    /\ UNCHANGED trackVars
    /\ UNCHANGED fetchVars
    /\ UNCHANGED <<mainVars, pureVars>>

\* The deadline elapses while the loop has no frame to handle: the timer
\* runs for 120 s (line 18), handling a frame takes no time.
TimerFireLate ==
    /\ chan = <<>>
    /\ message_task # "done"
    /\ TimerFire

RaceNext ==
    \/ Start
    \/ QueuePromptAnswer
    \/ EmitLost
    \/ Connect
    \/ Emit
    \/ PeerClose
    \/ TimerFireLate
    \/ RecvDone
    \/ WaitReturn
    \/ HistoryAnswer
    \/ ViewAnswer

\* The event loop runs a task that is ready, and the timer ends.
RaceSpec ==
    /\ Init
    /\ [][RaceNext]_vars
    /\ WF_vars(RecvDone)
    /\ WF_vars(WaitReturn)
    /\ WF_vars(TimerFireLate)

\* ------------------------------------------- generate_sprites.py: seeds
\* Python integers have no width and a seed passes 2^31, so a seed is kept
\* exactly as <<millions, rest>> with rest < 1000000.
MaxFrame == 3

EntityNames == {"goblin", "fighter", "skeleton"}

AnimationNames == {"walk", "idle", "attack", "run"}

FrameIndices == (0..MaxFrame) \cup {999, 1000, 1001, 2000}

\* int(hashlib.md5(entity_name.encode()).hexdigest()[:8], 16)
BaseSeed(entity_name) ==
    CASE entity_name = "goblin" -> <<1655, 937675>>
      [] entity_name = "fighter" -> <<3595, 763526>>
      [] entity_name = "skeleton" -> <<2229, 208955>>

Plus(n, k) ==
    LET t == n[2] + k IN <<n[1] + (t \div 1000000), t % 1000000>>

AnimationOffsetPacked(animation) ==
    CASE animation = "walk" -> 1
      [] animation = "idle" -> 0
      [] animation = "attack" -> 2
      [] OTHER -> 0

\* animation_offset.get(animation, 0)
AnimationOffset(animation) ==
    CASE animation = "walk" -> 1000
      [] animation = "idle" -> 0
      [] animation = "attack" -> 2000
      [] OTHER -> 0

get_sprite_seed(entity_name, animation, frame) ==
    Plus(Plus(BaseSeed(entity_name), AnimationOffset(animation)), frame)

\* --------------------------------------- sprite_packer.py: normalize_sprite
\* An image is its size, its mode and its pixels in row-major order, each
\* pixel <<r, g, b, a>>; a pixel of an RGB image is kept with alpha 255, which
\* is what its conversion to RGBA gives. The pixel values that resampling
\* computes are not modelled: a resized image has pixels <<>>.
MaxDim == 4

Dims == 1..MaxDim

Sizes == Dims \X Dims

Modes == {"RGBA", "RGB"}

PixelSamples ==
    << <<200, 100, 50, 255>>, <<200, 100, 50, 128>>,
       <<10, 20, 30, 0>>, <<0, 0, 0, 0>> >>

Opaque(pixel) == <<pixel[1], pixel[2], pixel[3], 255>>

\* The image of the given size and mode whose k-th pixel is the sample
\* number k + shift (cyclically).
SampleImage(size, mode, shift) ==
    [size |-> size,
     mode |-> mode,
     pixels |-> [k \in 1..(size[1] * size[2]) |->
                   LET pixel == PixelSamples[((k + shift) % Len(PixelSamples)) + 1]
                   IN  IF mode = "RGBA" THEN pixel ELSE Opaque(pixel)]]

Images ==
    {SampleImage(size, mode, shift) :
        size \in Sizes, mode \in Modes, shift \in 0..(Len(PixelSamples) - 1)}

NoImage == [size |-> <<0, 0>>, mode |-> "none", pixels |-> <<>>]

\* min(target_width / image.width, target_height / image.height), kept as the
\* fraction <<numerator, denominator>>.
Scale(size, target_size) ==
    IF target_size[1] * size[2] <= target_size[2] * size[1]
    THEN <<target_size[1], size[1]>>
    ELSE <<target_size[2], size[2]>>

\* round(x * scale) of Python: to the nearest integer, halves to the even one.
RoundMul(x, scale) ==
    LET q == (x * scale[1]) \div scale[2]
        r == (x * scale[1]) % scale[2]
    IN  IF 2 * r < scale[2] THEN q
        ELSE IF 2 * r > scale[2] THEN q + 1
        ELSE IF q % 2 = 0 THEN q ELSE q + 1

\* int(x * scale): the product truncated. The product of the floats equals
\* the exact one for every size up to 14, beyond any bound used here.
TruncMul(x, scale) == (x * scale[1]) \div scale[2]

\* Image.resize: a size with a zero is refused by the library.
ResizeRaises(new_size) == new_size[1] < 1 \/ new_size[2] < 1

Resize(image, new_size) ==
    [size |-> new_size, mode |-> image.mode, pixels |-> <<>>]

\* Image.new("RGBA", target_size, (0, 0, 0, 0))
NewCanvas(target_size) ==
    [size |-> target_size,
     mode |-> "RGBA",
     pixels |-> [k \in 1..(target_size[1] * target_size[2]) |-> <<0, 0, 0, 0>>]]

\* The library's division by 255 of the blend.
Div255(a) == LET t == a + 128 IN ((t \div 256) + t) \div 256

\* One pixel of canvas.paste(image, offset, mask): with the image as its own
\* mask every channel, alpha included, is blended by the alpha of the image;
\* without a mask the pixel is copied.
Blend(under, over, mask) ==
    IF mask = "image"
    THEN [c \in 1..4 |-> Div255(under[c] * (255 - over[4]) + over[c] * over[4])]
    ELSE over

\* canvas.paste(image, offset, mask), the mask being "image" or "none"; pixels
\* that are not modelled stay so.
Paste(canvas, image, offset, mask) ==
    [canvas EXCEPT !.pixels =
        IF image.pixels = <<>> \/ canvas.pixels = <<>> THEN <<>>
        ELSE [k \in 1..(canvas.size[1] * canvas.size[2]) |->
                LET x == ((k - 1) % canvas.size[1]) - offset[1]
                    y == ((k - 1) \div canvas.size[1]) - offset[2]
                IN  IF x \in 0..(image.size[1] - 1) /\ y \in 0..(image.size[2] - 1)
                    THEN Blend(canvas.pixels[k],
                               image.pixels[y * image.size[1] + x + 1],
                               mask)
                    ELSE canvas.pixels[k]]]

\* The result of normalize_sprite: what it raised, the size it asked
\* Image.resize for (<<>> when it asked for none) and the image returned.
normalize_sprite(image, target_size) ==
    LET scale == Scale(image.size, target_size)
        new_size == <<TruncMul(image.size[1], scale), TruncMul(image.size[2], scale)>>
    IN  IF image.size # target_size /\ ResizeRaises(new_size)
        THEN [raised |-> "ValueError", resize |-> new_size, image |-> NoImage]
        ELSE LET scaled == IF image.size # target_size
                           THEN Resize(image, new_size)
                           ELSE image
                 offset == <<(target_size[1] - scaled.size[1]) \div 2,
                             (target_size[2] - scaled.size[2]) \div 2>>
             IN  [raised |-> "none",
                  resize |-> IF image.size # target_size THEN new_size ELSE <<>>,
                  image |-> Paste(NewCanvas(target_size), scaled, offset,
                                  IF scaled.mode = "RGBA" THEN "image" ELSE "none")]

\* ------------------------------------------------- sprite_packer.py: pack
MaxFrames == 5

SpriteSize == 32

NoMetadata ==
    [animation |-> "", frames |-> <<>>, entityType |-> "",
     spriteSize |-> <<0, 0>>, totalFrames |-> 0]

Cols(num_frames) == IF num_frames > 1 THEN 2 ELSE 1

RowsFloor(num_frames, cols) == num_frames \div cols

\* (num_frames + cols - 1) // cols
Rows(num_frames, cols) == (num_frames + cols - 1) \div cols

\* The frame as pack pastes it: resized, without regard to its aspect ratio,
\* when its size is not the size of the first frame.
Fitted(frame, sprite_size) ==
    IF frame.size # sprite_size THEN Resize(frame, sprite_size) ELSE frame

\* The metadata of the frame of index i (from 0).
FrameMetadata(i, cols, sprite_size) ==
    [x |-> (i % cols) * sprite_size[1],
     y |-> (i \div cols) * sprite_size[2],
     w |-> sprite_size[1],
     h |-> sprite_size[2],
     duration |-> 150]

\* The sheet after the frames of index i and later are pasted, in order.
RECURSIVE PasteFrames(_, _, _, _)
PasteFrames(sprite_sheet, packed, i, cols) ==
    IF i >= Len(packed) THEN sprite_sheet
    ELSE LET sprite_size == packed[1].size
             meta == FrameMetadata(i, cols, sprite_size)
         IN  PasteFrames(Paste(sprite_sheet, Fitted(packed[i + 1], sprite_size),
                               <<meta.x, meta.y>>, "none"),
                         packed, i + 1, cols)

\* The result of pack: what it raised, the sprite sheet and the metadata.
pack(packed, entity_name, animation_name) ==
    IF packed = <<>>
    THEN [raised |-> "ValueError", sheet |-> NoImage, metadata |-> NoMetadata]
    ELSE LET sprite_size == packed[1].size
             num_frames == Len(packed)
             cols == Cols(num_frames)
             rows == Rows(num_frames, cols)
             sheet_size == <<sprite_size[1] * cols, sprite_size[2] * rows>>
         IN  [raised |-> "none",
              sheet |-> PasteFrames(NewCanvas(sheet_size), packed, 0, cols),
              metadata |->
                [animation |-> animation_name,
                 frames |-> [k \in 1..num_frames |->
                               FrameMetadata(k - 1, cols, sprite_size)],
                 entityType |-> entity_name,
                 spriteSize |-> sprite_size,
                 totalFrames |-> num_frames]]

\* --------------------------------------- generate_sprites.py: validate_sprites
\* A similarity is kept exactly, as the fraction <<numerator, denominator>>
\* in lowest terms.
RECURSIVE Gcd(_, _)
Gcd(a, b) == IF b = 0 THEN a ELSE Gcd(b, a % b)

Reduced(q) == LET g == Gcd(q[1], q[2]) IN <<q[1] \div g, q[2] \div g>>

AddQ(p, q) == Reduced(<<p[1] * q[2] + q[1] * p[2], p[2] * q[2]>>)

Min(a, b) == IF a <= b THEN a ELSE b

\* f.histogram(): one band of 256 counts for each channel of the mode.
Bands(image) == IF image.mode = "RGBA" THEN 4 ELSE 3

Count(image, band, value) ==
    Cardinality({k \in DOMAIN image.pixels : image.pixels[k][band] = value})

\* sum(min(a, b)) over the entries of one band, taken at the values of the
\* pixels of h1 of index k and later (the other entries of h1 are 0).
RECURSIVE BandOverlap(_, _, _, _)
BandOverlap(f1, f2, band, k) ==
    IF k > Len(f1.pixels) THEN 0
    ELSE LET value == f1.pixels[k][band]
             first == \A j \in 1..(k - 1) : f1.pixels[j][band] # value
         IN  (IF first
              THEN Min(Count(f1, band, value), Count(f2, band, value))
              ELSE 0)
             + BandOverlap(f1, f2, band, k + 1)

RECURSIVE Overlap(_, _, _)
Overlap(f1, f2, band) ==
    IF band > Min(Bands(f1), Bands(f2)) THEN 0
    ELSE BandOverlap(f1, f2, band, 1) + Overlap(f1, f2, band + 1)

\* sum(min(a, b) for a, b in zip(h1, h2)) / sum(h1)
Similarity(f1, f2) ==
    Reduced(<<Overlap(f1, f2, 1), Bands(f1) * Len(f1.pixels)>>)

\* similarity_sum after the pairs of index i and later are added.
RECURSIVE SimilaritySum(_, _)
SimilaritySum(packed, i) ==
    IF i >= Len(packed) THEN <<0, 1>>
    ELSE AddQ(Similarity(packed[i], packed[i + 1]), SimilaritySum(packed, i + 1))

VisualSimilarity(packed) ==
    IF Len(packed) > 1
    THEN LET sum == SimilaritySum(packed, 1)
         IN  Reduced(<<sum[1], sum[2] * (Len(packed) - 1)>>)
    ELSE <<1, 1>>

\* The dictionary returned for frames: keys holds its keys, and a key it has
\* not holds a default here.
ValidateFrames(packed) ==
    LET size_consistent == \A k \in DOMAIN packed : packed[k].size = packed[1].size
        has_transparency == \A k \in DOMAIN packed : packed[k].mode = "RGBA"
        visual_similarity == VisualSimilarity(packed)
    IN  [raised |-> "none",
         keys |-> {"size_consistent", "has_transparency", "frame_count",
                   "visual_similarity", "passes"},
         error |-> "",
         size_consistent |-> size_consistent,
         has_transparency |-> has_transparency,
         frame_count |-> Len(packed),
         visual_similarity |-> visual_similarity,
         passes |-> /\ size_consistent
                    /\ has_transparency
                    /\ 2 * visual_similarity[1] > visual_similarity[2]]

\* return {"passes": False, "error": "No frames"}
NoFrames ==
    [raised |-> "none",
     keys |-> {"passes", "error"},
     error |-> "No frames",
     size_consistent |-> FALSE,
     has_transparency |-> FALSE,
     frame_count |-> 0,
     visual_similarity |-> <<0, 1>>,
     passes |-> FALSE]

validate_sprites_raising(packed) ==
    IF packed = <<>>
    THEN [NoFrames EXCEPT !.raised = "ValueError", !.keys = {}, !.error = ""]
    ELSE ValidateFrames(packed)

validate_sprites(packed) ==
    IF packed = <<>> THEN NoFrames ELSE ValidateFrames(packed)

\* ------------------------------------------ calls of the pure functions
\* Each behaviour calls one function: get_sprite_seed twice, the others once,
\* with arguments drawn from the sets below.
OddImages ==
    {SampleImage(<<1, 1>>, "RGBA", 0), SampleImage(<<2, 1>>, "RGB", 1)}

\* n frames that are all base, but odd at index pos (none when pos = 0).
FrameList(n, base, odd, pos) ==
    [i \in 1..n |-> IF i = pos THEN odd ELSE base]

\* A frame as generate_walk_cycle collects it: normalized to 32 x 32.
NormalizedFrame ==
    [size |-> <<SpriteSize, SpriteSize>>, mode |-> "RGBA", pixels |-> <<>>]

FrameLists ==
    UNION {{FrameList(n, base, odd, pos) :
                base \in Images, odd \in OddImages, pos \in 0..n} :
           n \in 0..MaxFrames}

WalkCycles == {[i \in 1..n |-> NormalizedFrame] : n \in 0..MaxFrames}

PureInit ==
    /\ ClientIdle
    /\ MainIdle
    /\ fn \in {"get_sprite_seed", "normalize_sprite", "pack", "validate_sprites"}
    /\ calls = <<>>

CallGetSpriteSeed ==
    /\ fn = "get_sprite_seed"
    /\ Len(calls) < 2
    /\ \E entity_name \in EntityNames, animation \in AnimationNames,
          frame \in FrameIndices :
          calls' = Append(calls,
                          [entity_name |-> entity_name,
                           animation |-> animation,
                           frame |-> frame,
                           ret |-> get_sprite_seed(entity_name, animation, frame)])
    /\ UNCHANGED <<fn, clientVars, mainVars>>

CallNormalizeSprite ==
    /\ fn = "normalize_sprite"
    /\ calls = <<>>
    /\ \E image \in Images, target_size \in Sizes :
          calls' = <<[image |-> image,
                      target_size |-> target_size,
                      ret |-> normalize_sprite(image, target_size)]>>
    /\ UNCHANGED <<fn, clientVars, mainVars>>

CallPack ==
    /\ fn = "pack"
    /\ calls = <<>>
    /\ \E packed \in FrameLists \cup WalkCycles, entity_name \in EntityNames :
          calls' = <<[frames |-> packed,
                      entity_name |-> entity_name,
                      animation_name |-> "walk",
                      ret |-> pack(packed, entity_name, "walk")]>>
    /\ UNCHANGED <<fn, clientVars, mainVars>>

CallValidateSprites ==
    /\ fn = "validate_sprites"
    /\ calls = <<>>
    /\ \E packed \in FrameLists :
          calls' = <<[frames |-> packed, ret |-> validate_sprites(packed)]>>
    /\ UNCHANGED <<fn, clientVars, mainVars>>

PureNext ==
    \/ CallGetSpriteSeed
    \/ CallNormalizeSprite
    \/ CallPack
    \/ CallValidateSprites

PureSpec == PureInit /\ [][PureNext]_vars

\* ------------------------- generate_sprites.py: main, generate_walk_cycle
\* One step is the code between two awaits of main. The dictionary returned
\* by generate_walk_cycle is kept without its timings and its validation,
\* which depend on the clock and on pixel values that are not modelled.
TEST_ENTITIES == <<"goblin", "fighter", "skeleton">>

WALK_POSES ==
    <<"standing idle, centered pose", "mid-stride walking, left foot forward",
      "standing idle, centered pose", "mid-stride walking, right foot forward">>

\* What GET /system_stats can answer: a status, or a failure of the network.
NetworkFailures == {"ConnectError", "TimeoutException"}

ProbeAnswers == NetworkFailures \cup {"200", "204", "404", "500"}

is_available_success(answer) ==
    IF answer \in NetworkFailures THEN "False"
    ELSE IF answer \in {"200", "204"} THEN "True" ELSE "False"

\* is_available: response.status_code == 200, and False on any exception.
is_available(answer) ==
    IF answer \in NetworkFailures THEN "False"
    ELSE IF answer = "200" THEN "True" ELSE "False"

\* What generate_image returns: None, or bytes that decode to an image of the
\* size asked for, or bytes that Image.open refuses (image NoImage).
GeneratedImage(mode) == [size |-> <<128, 128>>, mode |-> mode, pixels |-> <<>>]

Generated ==
    {[kind |-> "None", image |-> NoImage], [kind |-> "bytes", image |-> NoImage]}
    \cup {[kind |-> "bytes", image |-> GeneratedImage(mode)] : mode \in Modes}

Pending == [kind |-> "pending", image |-> NoImage]

FrameFailedNever(generated) == FALSE

\* if image_data is None
FrameFailed(generated) == generated.kind = "None"

WalkFile(frame_idx) ==
    CASE frame_idx = 0 -> "walk_0.png"
      [] frame_idx = 1 -> "walk_1.png"
      [] frame_idx = 2 -> "walk_2.png"
      [] frame_idx = 3 -> "walk_3.png"

FrameError(frame_idx) ==
    CASE frame_idx = 0 -> "Frame 0 generation failed"
      [] frame_idx = 1 -> "Frame 1 generation failed"
      [] frame_idx = 2 -> "Frame 2 generation failed"
      [] frame_idx = 3 -> "Frame 3 generation failed"

\* The call of client.generate_image for a frame of an entity.
GenerateImage(e, frame_idx) ==
    [entity |-> e,
     frame |-> frame_idx,
     seed |-> get_sprite_seed(TEST_ENTITIES[e], "walk", frame_idx),
     returned |-> Pending]

\* The call in flight is the last one; it returns generated.
Returned(generated) ==
    [requested EXCEPT ![Len(requested)].returned = generated]

MainInit ==
    /\ ClientIdle
    /\ PureIdle
    /\ main_pc = "is_available"
    /\ probe_answer = "none"
    /\ available = "unknown"
    /\ entity = 0
    /\ frames = <<>>
    /\ requested = <<>>
    /\ results = <<>>
    /\ saved = {}

\* GET /system_stats is answered: main returns when the backend is not
\* available, and begins the walk cycle of the first entity when it is.
IsAvailableAnswer ==
    /\ main_pc = "is_available"
    /\ \E answer \in ProbeAnswers :
          /\ probe_answer' = answer
          /\ available' = is_available(answer)
          /\ IF is_available(answer) = "True"
             THEN /\ main_pc' = "generate_image"
                  /\ entity' = 1
                  /\ requested' = <<GenerateImage(1, 0)>>
             ELSE /\ main_pc' = "done"
                  /\ UNCHANGED <<entity, requested>>
    /\ UNCHANGED <<frames, results, saved, clientVars, pureVars>>

\* generate_walk_cycle returns result, a call in flight having returned
\* generated: main appends it and goes on to the next entity, if any.
WalkCycleReturns(result, generated, files) ==
    /\ results' = Append(results, result)
    /\ saved' = saved \cup files
    /\ frames' = <<>>
    /\ IF entity < Len(TEST_ENTITIES)
       THEN /\ entity' = entity + 1
            /\ requested' = Append(Returned(generated), GenerateImage(entity + 1, 0))
            /\ UNCHANGED main_pc
       ELSE /\ main_pc' = "done"
            /\ requested' = Returned(generated)
            /\ UNCHANGED entity

\* generate_image returned None: the walk cycle of the entity ends with an
\* error, without packing.
GenerateImageFails ==
    /\ main_pc = "generate_image"
    /\ \E generated \in Generated :
          /\ FrameFailed(generated)
          /\ WalkCycleReturns([entity |-> "",
                               error |-> FrameError(Len(frames)),
                               frames |-> 0,
                               sheet |-> NoImage,
                               metadata |-> NoMetadata],
                              generated, {})
    /\ UNCHANGED <<probe_answer, available, clientVars, pureVars>>

\* generate_image returned bytes that Image.open refuses: the exception
\* leaves generate_walk_cycle and main, which catch nothing.
GenerateImageUndecodable ==
    /\ main_pc = "generate_image"
    /\ \E generated \in Generated :
          /\ ~FrameFailed(generated)
          /\ generated.image = NoImage
          /\ requested' = Returned(generated)
    /\ main_pc' = "raised"
    /\ UNCHANGED <<probe_answer, available, entity, frames, results, saved,
                   clientVars, pureVars>>

\* generate_image returned an image: it is normalized, saved and collected;
\* after the last pose the frames are packed and the sheet and its metadata
\* are saved.
GenerateImageReturns ==
    /\ main_pc = "generate_image"
    /\ \E generated \in Generated :
          /\ ~FrameFailed(generated)
          /\ generated.image # NoImage
          /\ LET entity_name == TEST_ENTITIES[entity]
                 normalized == normalize_sprite(generated.image,
                                                <<SpriteSize, SpriteSize>>)
                 collected == Append(frames, normalized.image)
                 file == <<entity_name, WalkFile(Len(frames))>>
                 packed == pack(collected, entity_name, "walk")
             IN  IF normalized.raised # "none"
                 THEN /\ main_pc' = "raised"
                      /\ requested' = Returned(generated)
                      /\ UNCHANGED <<entity, frames, results, saved>>
                 ELSE IF Len(collected) < Len(WALK_POSES)
                 THEN /\ frames' = collected
                      /\ saved' = saved \cup {file}
                      /\ requested' = Append(Returned(generated),
                                             GenerateImage(entity, Len(collected)))
                      /\ UNCHANGED <<main_pc, entity, results>>
                 ELSE WalkCycleReturns([entity |-> entity_name,
                                        error |-> "",
                                        frames |-> Len(collected),
                                        sheet |-> packed.sheet,
                                        metadata |-> packed.metadata],
                                       generated,
                                       {file,
                                        <<entity_name, "spritesheet.png">>,
                                        <<entity_name, "metadata.json">>})
    /\ UNCHANGED <<probe_answer, available, clientVars, pureVars>>

MainNext ==
    \/ IsAvailableAnswer
    \/ GenerateImageFails
    \/ GenerateImageUndecodable
    \/ GenerateImageReturns

MainSpec == MainInit /\ [][MainNext]_vars

\* ------------------------------------------------------------------ claims
Last(q) == q[Len(q)]

IsPrefix(p, q) == Len(p) <= Len(q) /\ SubSeq(q, 1, Len(p)) = p

\* The names of the specification for how _wait_for_completion left.
TimeoutMsg == "Timeout waiting for image generation"
ErrorMsg == "Execution error"
Completed == wait_exit = "return"
TimedOutExit == wait_exit = "raise" /\ exc.msg = TimeoutMsg
FailedExit == wait_exit = "raise" /\ exc.msg = ErrorMsg

\* The completion event of the specification for job j, and an "executing"
\* event that is none: its node is not null, or its prompt_id is not j.
CompletionEventOf(e, j) ==
    e.type = "executing" /\ e.node = Null /\ e.prompt_id = j
OtherExecutingEvent(e, j) ==
    e.type = "executing" /\ (e.node # Null \/ e.prompt_id # j)

\* C1: the wait ends in Completed exactly in the step that consumes an
\* "executing" frame with node null and the prompt_id of the tracked job;
\* consuming an "executing" frame with another node or another prompt_id
\* leaves the wait in progress.
C1_CompletedIffCompletionEvent ==
    [][ /\ (wait_exit' = "return" /\ wait_exit # "return")
            => consumed' # consumed
        /\ consumed' # consumed
            => /\ (wait_exit' = "return")
                    <=> CompletionEventOf(Last(consumed'), prompt_id)
               /\ OtherExecutingEvent(Last(consumed'), prompt_id)
                    => (pc' = "wait" /\ wait_exit' = "none"
                        /\ websocket' = "open" /\ message_task' = "pending")
      ]_vars

\* C1 witness: the wait has returned after it consumed a null-node
\* "executing" frame of another job and went on.
C1_Witness ==
    /\ Completed
    /\ \E i \in 1..(Len(consumed) - 1) :
         /\ consumed[i].type = "executing"
         /\ consumed[i].node = Null
         /\ consumed[i].prompt_id \in JobIds \ {prompt_id}

\* C2: once the loop has consumed an "execution_error" frame, the wait has
\* left with the exception "Execution error" that carries the data of that
\* frame, and generate_image has not gone on to the history.
C2_ErrorEventFails ==
    (consumed # <<>> /\ Last(consumed).type = "execution_error")
        => /\ FailedExit
           /\ exc.detail = DataOf(Last(consumed))
           /\ pc = "done"

\* C2 witness: an "execution_error" frame ended the wait after a frame
\* that did not.
C2_Witness ==
    /\ FailedExit
    /\ Len(consumed) >= 2
    /\ exc.detail.prompt_id = prompt_id

\* C3: with the deadline elapsed, the next step of the wait is the timeout:
\* no frame is consumed any more, the wait does not return, and it leaves
\* with the timeout exception, whatever frames it consumed before.
C3_DeadlineEndsInTimeout ==
    [][ (pc = "wait" /\ timeout_task = "done")
          => /\ consumed' = consumed
             /\ wait_exit' # "return"
             /\ \/ pc' = "wait" /\ wait_exit' = "none"
                \/ TimedOutExit' /\ pc' = "done" /\ image_data' = None
      ]_vars

\* C3 witness: the wait timed out after frames that did not end it, with a
\* further frame received and not looked at.
C3_Witness ==
    /\ TimedOutExit
    /\ consumed # <<>>
    /\ message_task = "done"
    /\ data \in Events

\* The frames in the order the backend sent them: consumed, held by a done
\* recv(), not yet received.
Stream ==
    consumed
    \o (IF message_task = "done" /\ data \in Events THEN <<data>> ELSE <<>>)
    \o chan

\* An event that ends tracking, for the specification.
TerminalEvent(e) ==
    CompletionEventOf(e, prompt_id) \/ e.type = "execution_error"

\* C4: frames are consumed in the order they were sent; the first
\* completion event of the job or "execution_error" event consumed is the
\* last frame consumed and decides how the wait left; once the wait has
\* left, no frame is received or consumed and the way it left stays.
C4_FirstTerminalEventDecides ==
    /\ [](\A i \in 1..Len(consumed) :
            TerminalEvent(consumed[i])
              => /\ i = Len(consumed)
                 /\ IF consumed[i].type = "executing" THEN Completed ELSE FailedExit)
    /\ [][ /\ wait_exit = "none" => \/ IsPrefix(Stream, Stream')
                                    \/ wait_exit' # "none" /\ IsPrefix(Stream', Stream)
           /\ wait_exit # "none"
                => UNCHANGED <<consumed, data, message_task, chan, wait_exit>>
         ]_vars

\* C4 witness: a completion event ended the wait after an earlier frame,
\* while frames sent after it were never received.
C4_Witness ==
    /\ Completed
    /\ Len(consumed) >= 2
    /\ unread > 0

\* C5: however the wait left, the websocket is not open, the timer is not
\* pending and no recv() is pending.
C5_NothingLeftOpen ==
    wait_exit # "none"
        => /\ websocket # "open"
           /\ timeout_task # "pending"
           /\ message_task # "pending"

\* C5 witness: the wait timed out with a recv() pending, which is cancelled,
\* and the websocket is closed.
C5_Witness ==
    /\ TimedOutExit
    /\ message_task = "cancelled"
    /\ websocket = "closed"

\* The requests of one kind in the log, and the stage order of the requests.
Requests(r) == SelectSeq(log, LAMBDA x : x.req = r)
StageOf(x) ==
    CASE x.req = "POST /prompt" -> 1
      [] x.req = "WS /ws" -> 2
      [] x.req = "GET /history" -> 3
      [] x.req = "GET /view" -> 4

\* C6: the requests are issued in the order submit, websocket, history,
\* views; the websocket is opened only after a submit that returned a job
\* id, the history is asked only when the wait did not fail or time out,
\* the views only after the history answered; and generate_image returns
\* either None with an exception caught or the whole content of one image
\* of the history record.
C6_StagesInOrderShortCircuit ==
    /\ \A i \in 1..Len(log) : \A k \in 1..Len(log) :
         i < k => /\ StageOf(log[i]) <= StageOf(log[k])
                  /\ StageOf(log[i]) = StageOf(log[k]) => StageOf(log[i]) = 4
    /\ log # <<>> => log[1].req = "POST /prompt"
    /\ Requests("WS /ws") # <<>> => (answers[1] = "200" /\ prompt_id \in JobIds)
    /\ (Len(answers) >= 1 /\ answers[1] # "200")
         => (Len(log) = 1 /\ websocket = "unopened" /\ pc = "done" /\ image_data = None)
    /\ Requests("GET /history") # <<>> => (wait_exit # "raise" /\ wait_exit # "none")
    /\ wait_exit = "raise"
         => (Len(log) = 2 /\ pc = "done" /\ image_data = None /\ outputs = <<>>)
    /\ Requests("GET /view") # <<>> => (Len(answers) >= 3 /\ answers[3] = "200")
    /\ (pc = "done") <=> (image_data # NotReturned)
    /\ pc = "done"
         => \/ image_data = None /\ exc # NoExc
            \/ /\ exc = NoExc
               /\ \E i \in 1..Len(Descriptors(outputs)) :
                    image_data = Bytes(Descriptors(outputs)[i])

\* C6 witness: the wait timed out and generate_image returned None after
\* the two requests of the first two stages.
C6_Witness ==
    /\ pc = "done"
    /\ TimedOutExit
    /\ image_data = None
    /\ Len(log) = 2

\* The failure kinds of the specification, for the exceptions of the code.
KindOf(e) ==
    CASE e.msg \in {"Failed to queue prompt", "KeyError"} -> "SubmissionError"
      [] e.msg = ErrorMsg -> "TrackingError"
      [] e.msg = TimeoutMsg -> "TimeoutError"
      [] e.msg = "No images found in output" -> "ArtifactNotFound"
      [] OTHER -> e.msg

\* C7 as the specification states it: a failed generate_image hands its
\* caller a failure of the kind of the stage that failed.
C7_Original ==
    (pc = "done" /\ exc # NoExc) => image_data.kind = KindOf(exc)

\* C7 amended: every failure, of whatever kind, reaches the caller of
\* generate_image as the same value None; the kind and the payload stay in
\* the caught exception, which is reported and dropped.
C7_FailuresSurfaceAsNone ==
    (pc = "done" /\ exc # NoExc)
        => image_data = None

\* C7 witness: an "execution_error" frame of the tracked job failed the
\* wait, and the caller holds None.
C7_Witness ==
    /\ pc = "done"
    /\ KindOf(exc) = "TrackingError"
    /\ exc.detail.prompt_id = prompt_id
    /\ image_data = None

\* The descriptors of the history record in the order the backend reports
\* them, the descriptors the scan requested, and the answers they got
\* (the views are the requests from the fourth on).
Reported == Descriptors(outputs)
Viewed == [i \in 1..Len(Requests("GET /view")) |-> Requests("GET /view")[i].arg]
ViewAnswers == SubSeq(answers, 4, Len(answers))

\* The scan goes through the reported descriptors in order, returns the
\* content of the descriptor whose request was answered 200, and requests
\* nothing after it.
ScanInOrder ==
    /\ IsPrefix(Viewed, Reported)
    /\ Len(ViewAnswers) <= Len(Viewed)
    /\ pc = "done" => Len(ViewAnswers) = Len(Viewed)
    /\ \A i \in 1..Len(ViewAnswers) :
         ViewAnswers[i] = "200"
           => /\ i = Len(Viewed)
              /\ pc = "done"
              /\ image_data = Bytes(Reported[i])
    /\ image_data.kind = "bytes"
         => (ViewAnswers # <<>> /\ Last(ViewAnswers) = "200")

\* C8 as the specification states it: a request that fails, in whatever
\* way, while descriptors are left is followed by the request of the next
\* descriptor.
C8_Original ==
    /\ ScanInOrder
    /\ \A i \in 1..Len(ViewAnswers) :
         (ViewAnswers[i] # "200" /\ i < Len(Reported)) => Len(Viewed) > i

\* C8 amended: the scan requests the reported descriptors in order and
\* returns the content of the first whose request is answered 200, with no
\* request after it; a request answered with another status does not stop
\* the scan, while a request that fails in the network ends it with that
\* error and no further descriptor is requested.
C8_FirstRetrievedInOrder ==
    /\ ScanInOrder
    /\ \A i \in 1..Len(ViewAnswers) :
         /\ (ViewAnswers[i] = "500" /\ i < Len(Reported)) => Len(Viewed) > i
         /\ ViewAnswers[i] = "ConnectError"
              => /\ i = Len(Viewed)
                 /\ pc = "done"
                 /\ image_data = None
                 /\ exc.msg = "ConnectError"

\* C8 witness: the scan returned the content of a descriptor after an
\* earlier one was answered 500, and a later one was never requested.
C8_Witness ==
    /\ image_data.kind = "bytes"
    /\ Len(ViewAnswers) >= 2
    /\ ViewAnswers[1] = "500"
    /\ Len(Reported) > Len(Viewed)

\* The history was answered 200 and _get_generated_image raised.
FetchFailed ==
    /\ pc = "done"
    /\ image_data = None
    /\ Len(answers) >= 3
    /\ answers[3] = "200"
AllViewsFailed ==
    /\ Reported # <<>>
    /\ Len(ViewAnswers) = Len(Reported)
    /\ \A i \in 1..Len(ViewAnswers) : ViewAnswers[i] # "200"
AllViewsRefused ==
    /\ Reported # <<>>
    /\ Len(ViewAnswers) = Len(Reported)
    /\ \A i \in 1..Len(ViewAnswers) : ViewAnswers[i] = "500"
NotFoundMsg == "No images found in output"

\* C9 as the specification states it: without descriptors the fetch fails
\* with one error, and with descriptors that all fail to be retrieved it
\* fails with another.
C9_Original ==
    /\ (FetchFailed /\ Reported = <<>>) => exc.msg = NotFoundMsg
    /\ (FetchFailed /\ AllViewsFailed) => exc.msg # NotFoundMsg

\* C9 amended: the fetch fails with the same error, "No images found in
\* output", when the history record is missing or holds no descriptor and
\* when it holds descriptors whose requests are all answered with a status
\* other than 200; the two failures cannot be told apart.
C9_SameErrorForBoth ==
    /\ (FetchFailed /\ Reported = <<>>) => exc = Exc(NotFoundMsg, NoDetail)
    /\ (FetchFailed /\ AllViewsRefused) => exc = Exc(NotFoundMsg, NoDetail)

\* C9 witness: two descriptors were reported, both requests were answered
\* 500, and the fetch failed.
C9_Witness ==
    /\ FetchFailed
    /\ AllViewsRefused
    /\ Len(Reported) >= 2

\* The event of the specification's scenario: "executing" with node null
\* and no prompt_id in its data (the session is that of the websocket).
SessionEvent == [type |-> "executing", node |-> Null, prompt_id |-> Absent]

\* C10 as the specification states it: consuming the null-node "executing"
\* event of the session, which names no job, makes the wait return.
C10_Original ==
    (consumed # <<>> /\ Last(consumed) = SessionEvent) => Completed

\* C10 amended: consuming an "executing" event with node null whose data
\* carry the prompt_id of the submitted job makes the wait return, and
\* generate_image goes on to the history; the wait returns on no event
\* whose data carry another prompt_id or none.
C10_CompletionNeedsPromptId ==
    /\ (consumed # <<>> /\ CompletionEventOf(Last(consumed), prompt_id))
         => (Completed /\ pc \in {"history", "view", "done"}
             /\ Requests("GET /history") # <<>>)
    /\ Completed
         => (consumed # <<>> /\ Last(consumed).prompt_id = prompt_id)

\* C10 witness: the wait returned on the event that names the job, after
\* it had consumed the event that names none.
C10_Witness ==
    /\ Completed
    /\ \E i \in 1..(Len(consumed) - 1) : consumed[i] = SessionEvent

\* C11: one call of generate_image issues at most one POST of the prompt,
\* opens at most one websocket and asks the history at most once, whatever
\* the answers are.
C11_NoRetry ==
    /\ Len(Requests("POST /prompt")) <= 1
    /\ Len(Requests("WS /ws")) <= 1
    /\ Len(Requests("GET /history")) <= 1

\* C11 witness: the call has failed at the history lookup after one request
\* of each of the three kinds.
C11_Witness ==
    /\ pc = "done"
    /\ exc.msg = "Failed to get history"
    /\ Len(Requests("POST /prompt")) = 1
    /\ Len(Requests("WS /ws")) = 1
    /\ Len(Requests("GET /history")) = 1

\* C20: no frame that names another job ends the wait, neither by completing
\* it nor by failing it: the frame that ended the wait never carries the id
\* of a job other than the tracked one.
C20_Original ==
    ((Completed \/ FailedExit) /\ consumed # <<>>) =>
        Last(consumed).prompt_id \notin (JobIds \ {prompt_id})

\* C12: is_available returns true exactly when GET /system_stats is answered
\* with status 200, and returns false, raising nothing, for every other
\* status and for every network failure.
C12_AvailableIffStatus200 ==
    probe_answer # "none" =>
        /\ available \in {"True", "False"}
        /\ available = "True" <=> probe_answer = "200"

C12_Witness ==
    /\ probe_answer = "ConnectError"
    /\ available = "False"
    /\ main_pc = "done"

\* The calls of generate_image that returned None, and what was written for
\* an entity.
FailedCalls == {i \in DOMAIN requested : requested[i].returned.kind = "None"}

DecodedCalls(e) ==
    {i \in DOMAIN requested :
        /\ requested[i].entity = e
        /\ requested[i].returned.kind = "bytes"
        /\ requested[i].returned.image # NoImage}

SheetFiles(e) ==
    {<<TEST_ENTITIES[e], "spritesheet.png">>, <<TEST_ENTITIES[e], "metadata.json">>}

\* C13: after a frame of an entity failed to generate, no later frame of that
\* entity is requested, nothing is packed or saved as its sprite sheet or
\* metadata, and the next entity is still generated; a sprite sheet is
\* written only when every pose of the entity was generated.
C13_FailedFrameEndsEntityOnly ==
    /\ \A i \in FailedCalls :
          LET e == requested[i].entity
          IN  /\ \A j \in DOMAIN requested : j > i => requested[j].entity # e
              /\ SheetFiles(e) \cap saved = {}
              /\ Len(results) >= e
              /\ results[e].error = FrameError(requested[i].frame)
              /\ results[e].sheet = NoImage
              /\ results[e].metadata = NoMetadata
              /\ e < Len(TEST_ENTITIES) =>
                    \E j \in DOMAIN requested :
                        j > i /\ requested[j].entity = e + 1
              /\ e = Len(TEST_ENTITIES) => main_pc = "done"
    /\ \A e \in DOMAIN TEST_ENTITIES :
          SheetFiles(e) \cap saved # {} =>
              /\ SheetFiles(e) \subseteq saved
              /\ Cardinality(DecodedCalls(e)) = Len(WALK_POSES)
              /\ results[e].frames = Len(WALK_POSES)

\* The third frame of the first entity failed after two good ones, and the
\* second entity got its sprite sheet.
C13_Witness ==
    /\ Len(results) >= 2
    /\ results[1].error = "Frame 2 generation failed"
    /\ <<"goblin", "walk_1.png">> \in saved
    /\ results[2].error = ""
    /\ <<"fighter", "spritesheet.png">> \in saved

\* The calls of get_sprite_seed made so far, and the pairs of them for one
\* entity and two distinct animations.
SeedCalls == IF fn = "get_sprite_seed" THEN calls ELSE <<>>

SeedPairs ==
    {<<c, d>> \in {<<SeedCalls[i], SeedCalls[j]>> : i, j \in DOMAIN SeedCalls} :
        c.entity_name = d.entity_name /\ c.animation # d.animation}

KnownAnimations == {"idle", "walk", "attack"}

\* C14 as stated: for one entity, two distinct animation ids never give the
\* same seed, whatever the two frame indices are.
C14_Original == \A p \in SeedPairs : p[1].ret # p[2].ret

\* C14: for one entity, two distinct animation ids among idle, walk and
\* attack never give the same seed when both frame indices are below 1000.
C14_KnownBandsDisjoint ==
    \A p \in SeedPairs :
        (/\ p[1].animation \in KnownAnimations
         /\ p[2].animation \in KnownAnimations
         /\ p[1].frame < 1000
         /\ p[2].frame < 1000) => p[1].ret # p[2].ret

C14_Witness ==
    \E p \in SeedPairs :
        /\ p[1].animation = "walk" /\ p[1].frame = 999
        /\ p[2].animation = "attack" /\ p[2].frame = 0
        /\ p[1].ret # p[2].ret

\* The calls of normalize_sprite made so far, those that had to scale and
\* those whose image had the target size already.
NormalizeCalls ==
    IF fn = "normalize_sprite" THEN {calls[i] : i \in DOMAIN calls} ELSE {}

ScalingCalls == {c \in NormalizeCalls : c.image.size # c.target_size}

SameSizeCalls == {c \in NormalizeCalls : c.image.size = c.target_size}

\* k = floor(x * min(W / w, H / h)) for the image size <<w, h>> and the
\* target <<W, H>>, said without a division.
IsFloorOfScaled(k, x, size, target_size) ==
    /\ k * size[1] <= x * target_size[1]
    /\ k * size[2] <= x * target_size[2]
    /\ \/ (k + 1) * size[1] > x * target_size[1]
       \/ (k + 1) * size[2] > x * target_size[2]

\* C15: normalize_sprite never fails and always returns an image of exactly
\* the target size, for every image and target of positive width and height.
C15_Original ==
    \A c \in NormalizeCalls :
        c.ret.raised = "none" /\ c.ret.image.size = c.target_size

\* C16 as stated: an image whose size differs from the target is resized to
\* round(width * scale) x round(height * scale).
C16_Original ==
    \A c \in ScalingCalls :
        LET scale == Scale(c.image.size, c.target_size)
        IN  c.ret.resize = <<RoundMul(c.image.size[1], scale),
                             RoundMul(c.image.size[2], scale)>>

\* C16: an image whose size differs from the target is resized to
\* floor(width * scale) x floor(height * scale), the products being truncated
\* and never rounded up, also when a truncated side is 0.
C16_ScaledSizeTruncated ==
    \A c \in ScalingCalls :
        /\ Len(c.ret.resize) = 2
        /\ IsFloorOfScaled(c.ret.resize[1], c.image.size[1],
                           c.image.size, c.target_size)
        /\ IsFloorOfScaled(c.ret.resize[2], c.image.size[2],
                           c.image.size, c.target_size)

C16_Witness ==
    \E c \in ScalingCalls :
        /\ c.image.size = <<4, 3>>
        /\ c.target_size = <<2, 2>>
        /\ c.ret.raised = "none"
        /\ c.ret.resize = <<2, 1>>

\* C17: when the image has the target size already, every pixel of the
\* result equals the pixel of the image, in all four channels.
C17_Original ==
    \A c \in SameSizeCalls :
        c.ret.raised = "none" /\ c.ret.image.pixels = c.image.pixels

\* The calls of pack made so far with n >= 1 frames of one size.
PackCalls == IF fn = "pack" THEN {calls[i] : i \in DOMAIN calls} ELSE {}

UniformPackCalls ==
    {c \in PackCalls :
        /\ c.frames # <<>>
        /\ \A k \in DOMAIN c.frames : c.frames[k].size = c.frames[1].size}

\* ceil(n / 2): the least r with 2 * r >= n.
IsHalfCeiling(r, n) == 2 * r >= n /\ 2 * (r - 1) < n

Position(m) == <<m.x, m.y>>

\* C18: n >= 1 frames of size w x h are packed into a canvas of (w, h) for
\* n = 1 and of (2w, ceil(n/2) * h) for n > 1; the metadata of frame i has
\* position ((i mod columns) * w, (i div columns) * h), size (w, h) and
\* duration 150; four 32 x 32 frames get (0,0), (32,0), (0,32), (32,32) and
\* totalFrames 4.
C18_GridLayout ==
    \A c \in UniformPackCalls :
        LET n == Len(c.frames)
            w == c.frames[1].size[1]
            h == c.frames[1].size[2]
            columns == IF n = 1 THEN 1 ELSE 2
            sheet == c.ret.sheet.size
            meta == c.ret.metadata
        IN  /\ c.ret.raised = "none"
            /\ n = 1 => sheet = <<w, h>>
            /\ n > 1 => /\ sheet[1] = 2 * w
                        /\ \E r \in 1..n : IsHalfCeiling(r, n) /\ sheet[2] = r * h
            /\ Len(meta.frames) = n
            /\ \A i \in 0..(n - 1) :
                  meta.frames[i + 1] =
                      [x |-> (i % columns) * w, y |-> (i \div columns) * h,
                       w |-> w, h |-> h, duration |-> 150]
            /\ (n = 4 /\ w = 32 /\ h = 32) =>
                  /\ [k \in 1..4 |-> Position(meta.frames[k])] =
                         << <<0, 0>>, <<32, 0>>, <<0, 32>>, <<32, 32>> >>
                  /\ meta.totalFrames = 4

\* Four 32 x 32 frames were packed.
C18_Witness ==
    \E c \in UniformPackCalls :
        /\ Len(c.frames) = 4
        /\ c.frames[1].size = <<32, 32>>
        /\ c.ret.sheet.size = <<64, 64>>
        /\ c.ret.metadata.totalFrames = 4

\* The calls of validate_sprites made so far.
ValidateCalls ==
    IF fn = "validate_sprites" THEN {calls[i] : i \in DOMAIN calls} ELSE {}

\* C19 as stated: validate_sprites fails on an empty frame list with an
\* error, of the kind pack fails with, and returns no value.
C19_Original ==
    \A c \in ValidateCalls :
        c.frames = <<>> => c.ret.raised = pack(<<>>, "", "").raised

\* C19: on an empty frame list validate_sprites raises nothing and returns
\* the value {"passes": False, "error": "No frames"}; only pack raises on
\* an empty list.
C19_EmptyIsAValue ==
    /\ \A c \in ValidateCalls :
          c.frames = <<>> =>
              /\ c.ret.raised = "none"
              /\ c.ret.keys = {"passes", "error"}
              /\ c.ret.passes = FALSE
              /\ c.ret.error = "No frames"
    /\ \A c \in PackCalls : c.frames = <<>> => c.ret.raised = "ValueError"

C19_Witness ==
    \E c \in ValidateCalls : c.frames = <<>> /\ c.ret.error = "No frames"

\* _wait_for_completion returned to generate_image without an exception.
ReturnedNormally == wait_exit \in {"return", "cancelled"}

\* C21: also when the waiting task is cancelled, _wait_for_completion returns
\* normally, and generate_image asks for the history, only after a
\* completion event of the tracked job was consumed.
C21_Original ==
    (ReturnedNormally \/ Requests("GET /history") # <<>>) =>
        \E i \in DOMAIN consumed : CompletionEventOf(consumed[i], prompt_id)

\* Every frame the backend has sent for the session, in order.
AllSent == lost \o Stream

\* The websocket is open and the loop waits, the deadline has not elapsed,
\* the backend has sent the completion event of the tracked job exactly
\* once, and no frame the loop can receive fails the wait.
FinishedInTime ==
    /\ pc = "wait"
    /\ websocket = "open"
    /\ timeout_task = "pending"
    /\ Cardinality({i \in DOMAIN AllSent :
                       CompletionEventOf(AllSent[i], prompt_id)}) = 1
    /\ \A i \in DOMAIN Stream :
          IsJson(Stream[i]) /\ Stream[i].type # "execution_error"

\* C22: a job that the backend accepted and finished before the deadline,
\* sending its completion event once, eventually ends the wait as Completed,
\* whether the backend ran before or after the client opened the websocket.
C22_Original == FinishedInTime ~> Completed

\* The same holds when the completion event was sent on the open websocket:
\* only an event sent before the websocket opened is missed.
DeliveredCompletes ==
    (FinishedInTime /\ \A i \in DOMAIN lost : ~CompletionEventOf(lost[i], prompt_id))
        ~> Completed

=============================================================================
